---- MODULE Spec2Model ----
(***************************************************************************)
(* leafwing_input_manager: dual-axis input processors                      *)
(* (src/src/input_processing/dual_axis/mod.rs), chords                     *)
(* (src/src/input_like/chords.rs), SingleAxis and DualAxisData             *)
(* (src/src/axislike.rs).                                                   *)
(*                                                                         *)
(* Specifications.  Spec runs the processor calls, SpecBounds the          *)
(* symmetric bounds helpers, SpecChord the chord calls, SpecAxis the       *)
(* SingleAxis calls, SpecStage the comparisons of stages, SpecData the     *)
(* DualAxisData calls, SpecFlat the with_processor calls on processors    *)
(* obtained from None.  They share Init; the calls of one leave the        *)
(* values of the others alone.                                             *)
(*                                                                         *)
(* Records.  The fields of a record are written in one order everywhere,   *)
(* that of the first use of their names in this module.                    *)
(*                                                                         *)
(* Numbers.  An input value is a Vec2 of f32.  Input components are        *)
(* modelled as integers counting quanta of 0.5, so (1.5, 2.0) is <<3, 4>>. *)
(* The parameters of DualAxisInverted and DualAxisSensitivity are whole    *)
(* numbers (-1.0, 1.0, 2.0, ...) written as plain integers.  The f32       *)
(* product of a whole number and a multiple of 0.5 is exact at these       *)
(* magnitudes, so it is the integer product.  All values are finite.       *)
(* Where equality and hash of floats are at stake (SingleAxis, stage       *)
(* comparisons) an f32 is a bit pattern instead, NaN, the infinities and   *)
(* -0.0 among them.                                                        *)
(*                                                                         *)
(* Handles.  Arc<DualAxisProcessor> is a record [ptr, val]: ptr is the     *)
(* address of the allocation, val the payload, which is never written      *)
(* after Arc::new.  Cloning an Arc copies the record (same ptr).           *)
(***************************************************************************)
EXTENDS Integers, Sequences, FiniteSets, TLC

\* Longest collection handed to DualAxisProcessor::pipeline / from_iter.
MaxLen == 2

\* Longest chain of with_processor calls applied to one receiver.
MaxArgs == 2

----------------------------------------------------------------------------
(* Vec2 / BVec2 (bevy math, used by the stage types)                        *)

Vec2_new(x, y) == <<x, y>>

Vec2_ZERO == <<0, 0>>

Vec2_NEG_ONE == <<-1, -1>>

\* `a * b` on Vec2: componentwise product.
Vec2_mul(a, b) == <<a[1] * b[1], a[2] * b[2]>>

\* Vec2::cmpeq: componentwise equality, a BVec2.
Vec2_cmpeq(a, b) == <<a[1] = b[1], a[2] = b[2]>>

\* f32::MAX and f32::MIN: stand-ins beyond every finite value the calls are
\* given, in the same quanta.
f32_MAX == 1024
f32_MIN == -f32_MAX

\* f32::clamp on one component.
f32_clamp(x, min, max) == IF x < min THEN min ELSE IF x > max THEN max ELSE x

----------------------------------------------------------------------------
(* enum DualAxisProcessor.  Every variant is a record of the same shape:    *)
(* kind is the variant tag, p the payload of a stage variant, seq the       *)
(* Vec<Arc<DualAxisProcessor>> of the Pipeline variant.                     *)

None == [kind |-> "None", p |-> <<>>, seq |-> <<>>]

Inverted(inversion) == [kind |-> "Inverted", p |-> inversion, seq |-> <<>>]

Sensitivity(sensitivity) == [kind |-> "Sensitivity", p |-> sensitivity, seq |-> <<>>]

\* p is <<min_x, max_x, min_y, max_y>>.
ValueBounds(bounds) == [kind |-> "ValueBounds", p |-> bounds, seq |-> <<>>]

Pipeline(sequence) == [kind |-> "Pipeline", p |-> <<>>, seq |-> sequence]

\* Arc::new(val) returning the allocation at address ptr.
Arc_new(ptr, val) == [ptr |-> ptr, val |-> val]

\* #[derive(PartialEq)] on DualAxisProcessor: same variant and equal payloads;
\* Arc<T> compares the pointed-to values, Vec compares length and elements.
RECURSIVE DualAxisProcessor_eq(_, _)
DualAxisProcessor_eq(a, b) ==
    /\ a.kind = b.kind
    /\ IF a.kind = "Pipeline"
       THEN /\ Len(a.seq) = Len(b.seq)
            /\ \A i \in 1..Len(a.seq) :
                   DualAxisProcessor_eq(a.seq[i].val, b.seq[i].val)
       ELSE a.p = b.p

----------------------------------------------------------------------------
(* DualAxisInverted                                                         *)

DualAxisInverted_ALL == Vec2_NEG_ONE

DualAxisInverted_ONLY_X == Vec2_new(-1, 1)

\* Slip: ONLY_Y written with the components of ONLY_X.
DualAxisInverted_ONLY_Y_asOnlyX == Vec2_new(-1, 1)

DualAxisInverted_ONLY_Y == Vec2_new(1, -1)

\* Slip: compared with Vec2::ONE instead of Vec2::NEG_ONE.
inverted_againstOne(inversion) == Vec2_cmpeq(inversion, Vec2_new(1, 1))

inverted(inversion) == Vec2_cmpeq(inversion, Vec2_NEG_ONE)

invert(inversion, input_value) == Vec2_mul(inversion, input_value)

----------------------------------------------------------------------------
(* DualAxisSensitivity                                                      *)

DualAxisSensitivity_new(sensitivity_x, sensitivity_y) ==
    Vec2_new(sensitivity_x, sensitivity_y)

DualAxisSensitivity_all(sensitivity) ==
    DualAxisSensitivity_new(sensitivity, sensitivity)

\* Slip: the untouched axis gets the factor 0.0 instead of 1.0.
DualAxisSensitivity_only_x_zeroY(sensitivity) ==
    DualAxisSensitivity_new(sensitivity, 0)

DualAxisSensitivity_only_x(sensitivity) ==
    DualAxisSensitivity_new(sensitivity, 1)

DualAxisSensitivity_only_y(sensitivity) ==
    DualAxisSensitivity_new(1, sensitivity)

scale(sensitivity, input_value) == Vec2_mul(sensitivity, input_value)

----------------------------------------------------------------------------
(* DualAxisBounds (module `range`): clamps each axis into [min, max].       *)

DualAxisBounds_symmetric_all(threshold) ==
    <<-threshold, threshold, -threshold, threshold>>

\* Bounds on one axis only: the other axis keeps the whole f32 range.
DualAxisBounds_symmetric_only_x(threshold) ==
    <<-threshold, threshold, f32_MIN, f32_MAX>>

DualAxisBounds_symmetric_only_y(threshold) ==
    <<f32_MIN, f32_MAX, -threshold, threshold>>

DualAxisBounds_clamp(bounds, input_value) ==
    <<f32_clamp(input_value[1], bounds[1], bounds[2]),
      f32_clamp(input_value[2], bounds[3], bounds[4])>>

----------------------------------------------------------------------------
(* impl DualAxisProcessor                                                   *)

\* Slip: the items are collected back to front.
from_iter_reversed(iter, base) ==
    Pipeline([i \in 1..Len(iter) |-> Arc_new(base + i - 1, iter[Len(iter) + 1 - i])])

\* Slip: an empty collection gives None instead of an empty Pipeline.
from_iter_emptyIsNone(iter, base) ==
    IF iter = <<>>
    THEN None
    ELSE Pipeline([i \in 1..Len(iter) |-> Arc_new(base + i - 1, iter[i])])

\* FromIterator::from_iter: one Arc::new per item, in order; the allocations
\* get the addresses base, base + 1, ...
from_iter(iter, base) ==
    Pipeline([i \in 1..Len(iter) |-> Arc_new(base + i - 1, iter[i])])

pipeline(processors, base) == from_iter(processors, base)

\* Slip: the pipeline is folded from its last stage to its first.
RECURSIVE process_rightToLeft(_, _)
process_rightToLeft(proc, input_value) ==
    CASE proc.kind = "None" -> input_value
      [] proc.kind = "Inverted" -> invert(proc.p, input_value)
      [] proc.kind = "Sensitivity" -> scale(proc.p, input_value)
      [] proc.kind = "ValueBounds" -> DualAxisBounds_clamp(proc.p, input_value)
      [] proc.kind = "Pipeline" ->
            IF proc.seq = <<>>
            THEN input_value
            ELSE process_rightToLeft(
                     Head(proc.seq).val,
                     process_rightToLeft(Pipeline(Tail(proc.seq)), input_value))

RECURSIVE process(_, _)
process(proc, input_value) ==
    CASE proc.kind = "None" -> input_value
      [] proc.kind = "Inverted" -> invert(proc.p, input_value)
      [] proc.kind = "Sensitivity" -> scale(proc.p, input_value)
      [] proc.kind = "ValueBounds" -> DualAxisBounds_clamp(proc.p, input_value)
      [] proc.kind = "Pipeline" ->
            \* sequence.iter().fold(input_value, |value, next| next.process(value))
            IF proc.seq = <<>>
            THEN input_value
            ELSE process(Pipeline(Tail(proc.seq)),
                         process(Head(proc.seq).val, input_value))

\* Slip: the arm for a None argument returns the argument, not the receiver.
with_processor_returnsOther(self, other, fresh) ==
    IF other.kind = "None" THEN other
    ELSE IF self.kind = "None" THEN other
    ELSE IF self.kind = "Pipeline" /\ other.kind = "Pipeline"
         THEN Pipeline(self.seq \o other.seq)
    ELSE IF self.kind = "Pipeline"
         THEN Pipeline(Append(self.seq, Arc_new(fresh, other)))
    ELSE IF other.kind = "Pipeline"
         THEN Pipeline(<<Arc_new(fresh, self)>> \o other.seq)
    ELSE Pipeline(<<Arc_new(fresh, self), Arc_new(fresh + 1, other)>>)

\* Slip: the arm merging two pipelines is missing, so a pipeline argument is
\* pushed into the receiver as one stage.
with_processor_nests(self, other, fresh) ==
    IF other.kind = "None" THEN self
    ELSE IF self.kind = "None" THEN other
    ELSE IF self.kind = "Pipeline"
         THEN Pipeline(Append(self.seq, Arc_new(fresh, other)))
    ELSE IF other.kind = "Pipeline"
         THEN Pipeline(<<Arc_new(fresh, self)>> \o other.seq)
    ELSE Pipeline(<<Arc_new(fresh, self), Arc_new(fresh + 1, other)>>)

\* Slip: the new two-stage pipeline holds the argument first.
with_processor_swapsPair(self, other, fresh) ==
    IF other.kind = "None" THEN self
    ELSE IF self.kind = "None" THEN other
    ELSE IF self.kind = "Pipeline" /\ other.kind = "Pipeline"
         THEN Pipeline(self.seq \o other.seq)
    ELSE IF self.kind = "Pipeline"
         THEN Pipeline(Append(self.seq, Arc_new(fresh, other)))
    ELSE IF other.kind = "Pipeline"
         THEN Pipeline(<<Arc_new(fresh, self)>> \o other.seq)
    ELSE Pipeline(<<Arc_new(fresh, other), Arc_new(fresh + 1, self)>>)

\* Slip: a stage pushed into a pipeline receiver goes to the front.
with_processor_prepends(self, other, fresh) ==
    IF other.kind = "None" THEN self
    ELSE IF self.kind = "None" THEN other
    ELSE IF self.kind = "Pipeline" /\ other.kind = "Pipeline"
         THEN Pipeline(self.seq \o other.seq)
    ELSE IF self.kind = "Pipeline"
         THEN Pipeline(<<Arc_new(fresh, other)>> \o self.seq)
    ELSE IF other.kind = "Pipeline"
         THEN Pipeline(<<Arc_new(fresh, self)>> \o other.seq)
    ELSE Pipeline(<<Arc_new(fresh, self), Arc_new(fresh + 1, other)>>)

\* Slip: a stage taken by None is put into a pipeline of its own.
with_processor_wrapsLone(self, other, fresh) ==
    IF other.kind = "None" THEN self
    ELSE IF self.kind = "None"
         THEN IF other.kind = "Pipeline" THEN other ELSE Pipeline(<<Arc_new(fresh, other)>>)
    ELSE IF self.kind = "Pipeline" /\ other.kind = "Pipeline"
         THEN Pipeline(self.seq \o other.seq)
    ELSE IF self.kind = "Pipeline"
         THEN Pipeline(Append(self.seq, Arc_new(fresh, other)))
    ELSE IF other.kind = "Pipeline"
         THEN Pipeline(<<Arc_new(fresh, self)>> \o other.seq)
    ELSE Pipeline(<<Arc_new(fresh, self), Arc_new(fresh + 1, other)>>)

\* Slip: merging two pipelines puts the stages of the second into new handles.
with_processor_rewraps(self, other, fresh) ==
    IF other.kind = "None" THEN self
    ELSE IF self.kind = "None" THEN other
    ELSE IF self.kind = "Pipeline" /\ other.kind = "Pipeline"
         THEN Pipeline(self.seq \o
                       [i \in 1..Len(other.seq) |-> Arc_new(fresh + i - 1, other.seq[i].val)])
    ELSE IF self.kind = "Pipeline"
         THEN Pipeline(Append(self.seq, Arc_new(fresh, other)))
    ELSE IF other.kind = "Pipeline"
         THEN Pipeline(<<Arc_new(fresh, self)>> \o other.seq)
    ELSE Pipeline(<<Arc_new(fresh, self), Arc_new(fresh + 1, other)>>)

\* self.with_processor(next_processor); fresh is the address the next
\* Arc::new returns.
with_processor(self, other, fresh) ==
    IF other.kind = "None" THEN self
    ELSE IF self.kind = "None" THEN other
    ELSE IF self.kind = "Pipeline" /\ other.kind = "Pipeline"
         THEN Pipeline(self.seq \o other.seq)
    ELSE IF self.kind = "Pipeline"
         THEN Pipeline(Append(self.seq, Arc_new(fresh, other)))
    ELSE IF other.kind = "Pipeline"
         THEN Pipeline(<<Arc_new(fresh, self)>> \o other.seq)
    ELSE Pipeline(<<Arc_new(fresh, self), Arc_new(fresh + 1, other)>>)

\* Number of Arc::new calls with_processor makes for these operands.
ArcsCreated(self, other) ==
    IF other.kind = "None" \/ self.kind = "None" THEN 0
    ELSE IF self.kind = "Pipeline" /\ other.kind = "Pipeline" THEN 0
    ELSE IF self.kind = "Pipeline" \/ other.kind = "Pipeline" THEN 1
    ELSE 2

----------------------------------------------------------------------------
(* trait WithDualAxisProcessorExt: the symmetric bounds helpers.  The        *)
(* implementor's with_processor appends to the processor it holds.          *)

\* with_bounds_symmetric(threshold)
with_bounds_symmetric(self, threshold, fresh) ==
    with_processor(self, ValueBounds(DualAxisBounds_symmetric_all(threshold)), fresh)

\* with_bounds_x_symmetric(threshold)
with_bounds_x_symmetric(self, threshold, fresh) ==
    with_processor(self, ValueBounds(DualAxisBounds_symmetric_all(threshold)), fresh)

\* with_bounds_y_symmetric(threshold)
with_bounds_y_symmetric(self, threshold, fresh) ==
    with_processor(self, ValueBounds(DualAxisBounds_symmetric_all(threshold)), fresh)

----------------------------------------------------------------------------
(* f32 by bit pattern, for the values whose equality and hash are at stake. *)
(* A pattern is [class, neg, mag]: class "finite", "infinite" or "nan", the *)
(* sign bit, and the magnitude of a finite value.                           *)

Finite(n) == [class |-> "finite", neg |-> n < 0, mag |-> IF n < 0 THEN -n ELSE n]

NEG_ZERO == [class |-> "finite", neg |-> TRUE, mag |-> 0]

INFINITY == [class |-> "infinite", neg |-> FALSE, mag |-> 0]

NEG_INFINITY == [class |-> "infinite", neg |-> TRUE, mag |-> 0]

NAN == [class |-> "nan", neg |-> FALSE, mag |-> 0]

is_nan(x) == x.class = "nan"

\* Unary minus flips the sign bit, of a NaN too.
f32_neg(x) == [x EXCEPT !.neg = ~x.neg]

\* Place of a pattern that is not a NaN on the number line; both zeros share one.
f32_order(x) ==
    IF x.class = "infinite"
    THEN IF x.neg THEN f32_MIN - 1 ELSE f32_MAX + 1
    ELSE IF x.neg THEN -x.mag ELSE x.mag

\* The IEEE comparisons == and >=: false whenever an operand is a NaN.
f32_eq(a, b) == ~is_nan(a) /\ ~is_nan(b) /\ f32_order(a) = f32_order(b)

f32_ge(a, b) == ~is_nan(a) /\ ~is_nan(b) /\ f32_order(a) >= f32_order(b)

\* PartialEq for Vec2: == on both components.
Vec2_eq(a, b) == f32_eq(a[1], b[1]) /\ f32_eq(a[2], b[2])

\* bevy::utils::FloatOrd: every NaN equals every NaN, anything else as ==.
FloatOrd_eq(a, b) == IF is_nan(a) THEN is_nan(b) ELSE f32_eq(a, b)

\* The bytes FloatOrd feeds the hasher: those of f32::NAN for a NaN, of 0.0 for
\* either zero, the value's own otherwise.
FloatOrd_hash(a) ==
    IF is_nan(a) THEN NAN
    ELSE IF f32_eq(a, Finite(0)) THEN Finite(0)
    ELSE a

----------------------------------------------------------------------------
(* Equality and hash of the stage types DualAxisInverted and                *)
(* DualAxisSensitivity, both a tuple struct over Vec2.  Here the Vec2 holds  *)
(* bit patterns.                                                            *)

\* derive(PartialEq) on DualAxisInverted / DualAxisSensitivity
Stage_eq(a, b) == Vec2_eq(a, b)

\* Hash for DualAxisInverted / DualAxisSensitivity: what is fed to the hasher.
Stage_hash(a) == <<FloatOrd_hash(a[1]), FloatOrd_hash(a[2])>>

----------------------------------------------------------------------------
(* SingleAxis (src/src/axislike.rs).  value is an Option: <<>> or <<v>>.    *)

SingleAxis_symmetric(axis_type, threshold) ==
    [axis_type |-> axis_type,
     positive_low |-> threshold,
     negative_low |-> f32_neg(threshold),
     value |-> <<>>]

SingleAxis_from_value(axis_type, value) ==
    [axis_type |-> axis_type,
     positive_low |-> Finite(0),
     negative_low |-> Finite(0),
     value |-> <<value>>]

SingleAxis_mouse_motion_x ==
    [axis_type |-> "MouseMotion(X)",
     positive_low |-> Finite(0),
     negative_low |-> Finite(0),
     value |-> <<>>]

SingleAxis_mouse_motion_y ==
    [axis_type |-> "MouseMotion(Y)",
     positive_low |-> Finite(0),
     negative_low |-> Finite(0),
     value |-> <<>>]

SingleAxis_negative_only(axis_type, threshold) ==
    [axis_type |-> axis_type,
     positive_low |-> Finite(f32_MAX),
     negative_low |-> threshold,
     value |-> <<>>]

SingleAxis_positive_only(axis_type, threshold) ==
    [axis_type |-> axis_type,
     positive_low |-> threshold,
     negative_low |-> Finite(f32_MIN),
     value |-> <<>>]

\* Slip: only positive_low is set.
with_deadzone_positiveOnly(self, deadzone) ==
    [self EXCEPT !.positive_low = deadzone]

\* with_deadzone(mut self, deadzone): self is the callee's own copy.
with_deadzone(self, deadzone) ==
    [self EXCEPT !.negative_low = f32_neg(deadzone), !.positive_low = deadzone]

\* Slip: value is compared as well.
SingleAxis_eq_withValue(self, other) ==
    /\ self.axis_type = other.axis_type
    /\ FloatOrd_eq(self.positive_low, other.positive_low)
    /\ FloatOrd_eq(self.negative_low, other.negative_low)
    /\ self.value = other.value

\* PartialEq for SingleAxis
SingleAxis_eq(self, other) ==
    /\ self.axis_type = other.axis_type
    /\ FloatOrd_eq(self.positive_low, other.positive_low)
    /\ FloatOrd_eq(self.negative_low, other.negative_low)

\* Hash for SingleAxis: what is fed to the hasher, in order.
SingleAxis_hash(self) ==
    <<self.axis_type, FloatOrd_hash(self.positive_low), FloatOrd_hash(self.negative_low)>>

----------------------------------------------------------------------------
(* DualAxisData (src/src/axislike.rs): xy is a Vec2 of whole numbers.       *)

DualAxisData_new(x, y) == [xy |-> Vec2_new(x, y)]

DualAxisData_from_xy(xy) == [xy |-> xy]

\* self.xy() + other.xy(), in a value of its own
merged_with(self, other) ==
    DualAxisData_from_xy(<<self.xy[1] + other.xy[1], self.xy[2] + other.xy[2]>>)

\* Vec2::length, for the vectors whose length is a whole number.
Vec2_length(v) ==
    CHOOSE n \in 0..(v[1] * v[1] + v[2] * v[2]) : n * n = v[1] * v[1] + v[2] * v[2]

\* Vec2::clamp_length_max: max * (v / length) when v is longer than max.
Vec2_clamp_length_max(v, max) ==
    IF v[1] * v[1] + v[2] * v[2] > max * max
    THEN <<(max * v[1]) \div Vec2_length(v), (max * v[2]) \div Vec2_length(v)>>
    ELSE v

\* clamp_length(&mut self, max): what self holds when the call returns.
clamp_length(self, max) == [self EXCEPT !.xy = Vec2_clamp_length_max(self.xy, max)]

----------------------------------------------------------------------------
(* Input objects and chords (src/src/input_like/chords.rs)                  *)
(*                                                                          *)
(* A Box<dyn InputLikeObject> is a record: kind is the concrete type        *)
(* ("Button", "SingleAxis", "DualAxis" for a leaf, "Chord" for a chord), id *)
(* the physical source of a leaf, value the mocking-only sample of a        *)
(* SingleAxis leaf, inputs the members of a chord.  A World is the set of   *)
(* the ids of the buttons held down.  An Option is a sequence of length 0   *)
(* or 1.                                                                    *)

Leaf(kind, id, value) == [kind |-> kind, value |-> value, id |-> id, inputs |-> <<>>]

\* Chord::new
Chord_new(inputs) == [kind |-> "Chord", value |-> 0, id |-> 0, inputs |-> inputs]

\* PartialEq for dyn InputLikeObject: objects of different concrete kinds are
\* never equal; leaves of one kind compare their source, not the mocking-only
\* value; chords compare their members in order (derive(PartialEq) on Chord).
RECURSIVE InputLikeObject_eq(_, _)
InputLikeObject_eq(a, b) ==
    /\ a.kind = b.kind
    /\ IF a.kind = "Chord"
       THEN /\ Len(a.inputs) = Len(b.inputs)
            /\ \A i \in 1..Len(a.inputs) : InputLikeObject_eq(a.inputs[i], b.inputs[i])
       ELSE a.id = b.id

\* as_button of a leaf: only a button-like leaf has the view.
Leaf_as_button(input) == IF input.kind = "Button" THEN <<input>> ELSE <<>>

\* input_pressed of a button leaf: the device layer's sample in the World.
Leaf_input_pressed(input, world) == input.id \in world

\* raw_inputs of a leaf: the leaf itself.
Leaf_raw_inputs(input) == <<input>>

\* as_button through the trait object: Chord::as_button is Some(self).
as_button(input) == IF input.kind = "Chord" THEN <<input>> ELSE Leaf_as_button(input)

\* Slip: a member without a button view is skipped instead of failing the chord.
RECURSIVE input_pressed_skipsViewless(_, _)
input_pressed_skipsViewless(input, world) ==
    IF input.kind = "Chord"
    THEN \A i \in 1..Len(input.inputs) :
             LET button == as_button(input.inputs[i])
             IN  IF button = <<>>
                 THEN TRUE
                 ELSE input_pressed_skipsViewless(button[1], world)
    ELSE Leaf_input_pressed(input, world)

\* Slip: any() instead of all().
RECURSIVE input_pressed_any(_, _)
input_pressed_any(input, world) ==
    IF input.kind = "Chord"
    THEN \E i \in 1..Len(input.inputs) :
             LET button == as_button(input.inputs[i])
             IN  IF button = <<>>
                 THEN FALSE
                 ELSE input_pressed_any(button[1], world)
    ELSE Leaf_input_pressed(input, world)

\* ButtonLike::input_pressed through the trait object; for a Chord:
\* inputs.iter().all(|input| input.as_button().map(..).unwrap_or_default())
RECURSIVE input_pressed(_, _)
input_pressed(input, world) ==
    IF input.kind = "Chord"
    THEN \A i \in 1..Len(input.inputs) :
             LET button == as_button(input.inputs[i])
             IN  IF button = <<>>
                 THEN FALSE
                 ELSE input_pressed(button[1], world)
    ELSE Leaf_input_pressed(input, world)

\* Slip: the members are returned as they are, chords included.
raw_inputs_members(input) ==
    IF input.kind = "Chord" THEN input.inputs ELSE Leaf_raw_inputs(input)

\* InputLikeObject::raw_inputs through the trait object; for a Chord:
\* inputs.iter().flat_map(|x| x.raw_inputs()).collect()
RECURSIVE raw_inputs(_)
raw_inputs(input) ==
    IF input.kind = "Chord"
    THEN IF input.inputs = <<>>
         THEN <<>>
         ELSE raw_inputs(Head(input.inputs)) \o raw_inputs(Chord_new(Tail(input.inputs)))
    ELSE Leaf_raw_inputs(input)

\* Slip: membership is tested against the immediate members.
contains_immediate(self, input) ==
    \E i \in 1..Len(self.inputs) : InputLikeObject_eq(self.inputs[i], input)

\* Chord::contains
contains(self, input) ==
    LET leaves == raw_inputs(self)
    IN  \E i \in 1..Len(leaves) : InputLikeObject_eq(leaves[i], input)

\* deserialize_chord_inner: todo!(), whatever the deserializer holds.
deserialize_chord_inner(deserializer) == "panic"

\* derive(Deserialize) on Chord.  A document is [map, fields]: whether it is a
\* map at all, and the fields it has, `inputs` being a sequence of stored tags.
\* The outcome is "ok", "err" (a decoding error returned) or "panic".
Chord_deserialize(document) ==
    IF ~document.map THEN "err"
    ELSE IF "inputs" \notin DOMAIN document.fields THEN "err"
    ELSE deserialize_chord_inner(document.fields.inputs)

----------------------------------------------------------------------------
(* Inputs of the calls                                                      *)

\* Components of the Vec2 values handed to process / invert / scale,
\* in quanta of 0.5: -1.5, 1.5, 2.0.
Components == {-3, 3, 4}

InputValues == {Vec2_new(x, y) : x \in Components, y \in Components}

\* Sensitivity factors handed to the DualAxisSensitivity constructors.
Factors == {-2, 3}

\* Thresholds handed to the symmetric bounds helpers: 1.0 and 1.5.
Thresholds == {2, 3}

\* A pipeline held as an item of another pipeline.
NestedPipeline == from_iter(<<Inverted(DualAxisInverted_ONLY_Y)>>, 0)

\* Items a collection handed to pipeline / from_iter is made of.
Items ==
    { None,
      Inverted(DualAxisInverted_ALL),
      Sensitivity(DualAxisSensitivity_all(2)),
      NestedPipeline }

RECURSIVE SeqsUpTo(_, _)
SeqsUpTo(S, n) ==
    IF n = 0 THEN {<<>>}
    ELSE LET shorter == SeqsUpTo(S, n - 1)
         IN  shorter \cup {Append(s, x) : s \in {t \in shorter : Len(t) = n - 1}, x \in S}

Collections == SeqsUpTo(Items, MaxLen)

\* Processors handed to with_processor as next_processor.  The pipelines among
\* them were built earlier; a call receives a clone, which shares the handles.
NextProcessors ==
    { None,
      Inverted(DualAxisInverted_ALL),
      ValueBounds(DualAxisBounds_symmetric_all(2)),
      from_iter(<<>>, 1),
      from_iter(<<ValueBounds(DualAxisBounds_symmetric_all(2)),
                  Sensitivity(DualAxisSensitivity_all(2))>>, 1),
      from_iter(<<None, NestedPipeline>>, 3) }

\* Addresses of the allocations a processor holds, to any depth.
RECURSIVE Ptrs(_)
Ptrs(proc) ==
    UNION {{proc.seq[i].ptr} \cup Ptrs(proc.seq[i].val) : i \in 1..Len(proc.seq)}

\* First address not taken by the operands above.
FirstFree ==
    LET used == UNION {Ptrs(proc) : proc \in NextProcessors \cup Items}
    IN  1 + CHOOSE m \in used : \A n \in used : n <= m

\* Largest number of members of a chord handed to Chord::new.
MaxMembers == 2

\* Leaves: two buttons, and one axis with two mocking-only values.
ButtonA == Leaf("Button", 1, 0)
ButtonB == Leaf("Button", 2, 0)
AxisX == Leaf("SingleAxis", 3, 0)
AxisXMocked == Leaf("SingleAxis", 3, 1)

\* Members of the chords built: the leaves, and chords built earlier, one of
\* them empty, one nested twice.
Members ==
    { ButtonA, ButtonB, AxisX,
      Chord_new(<<>>),
      Chord_new(<<ButtonA, ButtonB>>),
      Chord_new(<<Chord_new(<<ButtonB>>)>>) }

\* Worlds handed to input_pressed: which of the two buttons are held down.
Worlds == SUBSET {ButtonA.id, ButtonB.id}

\* Inputs handed to contains.
Queries == {ButtonA, ButtonB, AxisXMocked, Chord_new(<<ButtonA, ButtonB>>)}

\* Serialized forms handed to Chord::deserialize: not a map, a map without
\* `inputs`, and maps whose `inputs` hold no tag, a known tag, an unknown tag.
Documents ==
    { [map |-> FALSE, fields |-> <<>>],
      [map |-> TRUE, fields |-> <<>>],
      [map |-> TRUE, fields |-> [inputs |-> <<>>]],
      [map |-> TRUE, fields |-> [inputs |-> <<"KeyCode">>]],
      [map |-> TRUE, fields |-> [inputs |-> <<"KeyCode", "Unregistered">>]] }

\* Largest number of with_deadzone calls made on one SingleAxis.
MaxDeadzones == 1

\* f32 arguments of the SingleAxis calls: -1.0, -0.0, 0.0, 1.0, NaN, +infinity.
Floats == {Finite(-1), NEG_ZERO, Finite(0), Finite(1), NAN, INFINITY}

\* Axis types handed to the SingleAxis constructors.
AxisTypes == {"MouseMotion(X)", "MouseMotion(Y)"}

\* Mocking values written to the public field `value`.
MockValues == {<<>>, <<Finite(0)>>, <<Finite(1)>>}

\* The SingleAxis values `self` is compared with: self and two other axes,
\* each under every mocking value.
OthersOf(self) ==
    {[other EXCEPT !.value = value] :
        other \in {self, SingleAxis_mouse_motion_x,
                   SingleAxis_negative_only("MouseMotion(Y)", NAN)},
        value \in MockValues}

\* The stages `self` is compared with: the DualAxisSensitivity of every pair
\* of f32 parameters, or the three DualAxisInverted presets.
OtherStages(self) ==
    IF self.type = "DualAxisSensitivity"
    THEN {[v |-> DualAxisSensitivity_new(x, y), type |-> self.type] : x \in Floats, y \in Floats}
    ELSE {[v |-> <<Finite(preset[1]), Finite(preset[2])>>, type |-> self.type] :
             preset \in {DualAxisInverted_ALL, DualAxisInverted_ONLY_X, DualAxisInverted_ONLY_Y}}

\* Positions handed to DualAxisData::new and merged_with; each has a whole length.
Positions ==
    {<<0, 0>>, <<3, 4>>, <<6, 8>>, <<-6, 8>>, <<0, 5>>, <<8, -6>>, <<-8, -6>>, <<0, -10>>}

\* Lengths handed to clamp_length.
MaxLengths == {0, 5, 10}

\* Largest number of with_processor calls made on the processors obtained
\* from None.
MaxCalls == 3

\* None and the bare stages handed to those calls.
Stages ==
    { None,
      Inverted(DualAxisInverted_ALL),
      Sensitivity(DualAxisSensitivity_all(2)),
      ValueBounds(DualAxisBounds_symmetric_all(2)) }

----------------------------------------------------------------------------
(* State                                                                    *)

VARIABLES
    op,            \* the call made last
    built,         \* the constructor call that made the receiver, with its arguments
    history,       \* history[1] is the receiver as constructed, history[k + 1]
                   \* the processor returned by the k-th with_processor call
    args,          \* the next_processor arguments of those calls, in order
    next_ptr,      \* address the next Arc::new returns
    input_value,   \* argument of the last process / invert / scale call
    output_value,  \* what that call returned
    twice,         \* invert(invert(input_value)) of the last invert call
    flags,         \* what inverted() returned in the last invert call
    bounds_call,   \* the bounds helper that made the last stage, and its threshold
    chord,         \* the Chord held by the caller
    chord_call,    \* the call made last on chord, its argument and what it returned
    axis,          \* the SingleAxis held by the caller
    axis_calls,    \* the constructor call and the with_deadzone calls that made axis,
                   \* each with its f32 argument
    axis_cmp,      \* the last comparison of axis with another SingleAxis
    stage,         \* the DualAxisInverted / DualAxisSensitivity held by the caller
    stage_cmp,     \* the last comparison of stage with another stage of its type
    data,          \* the DualAxisData held by the caller
    data_call,     \* the call made last on data: what data held before it, its
                   \* argument, and what it returned (<<>> for no value)
    obtained,      \* the processors obtained from None by with_processor calls,
                   \* obtained[1] being None itself
    obtained_by,   \* obtained_by[k] holds the operands of the call that returned
                   \* obtained[k + 1]
    obtained_ptr   \* address the next Arc::new of those calls returns

\* The state of a run of processor calls, and the state of a run of chord calls.
procVars ==
    <<op, built, history, args, next_ptr, input_value, output_value, twice, flags,
      bounds_call>>
chordVars == <<chord, chord_call>>
axisVars == <<axis, axis_calls, axis_cmp>>
stageVars == <<stage, stage_cmp>>
dataVars == <<data, data_call>>

flatVars == <<obtained, obtained_by, obtained_ptr>>

vars == <<procVars, chordVars, axisVars, stageVars, dataVars, flatVars>>

\* What the calls on one kind of value leave alone.
notProcVars == <<chordVars, axisVars, stageVars, dataVars, flatVars>>
notChordVars == <<procVars, axisVars, stageVars, dataVars, flatVars>>
notAxisVars == <<procVars, chordVars, stageVars, dataVars, flatVars>>
notStageVars == <<procVars, chordVars, axisVars, dataVars, flatVars>>
notDataVars == <<procVars, chordVars, axisVars, stageVars, flatVars>>
notFlatVars == <<procVars, chordVars, axisVars, stageVars, dataVars>>

\* The processor currently held.
acc == history[Len(history)]

NoCall == [ctor |-> "default", k |-> <<>>]

\* No bounds helper made the last stage.
NoBoundsCall == [threshold |-> 0, helper |-> "none"]

\* No comparison made yet; a comparison fills other, eq and the two hashes.
NoCmp == [other |-> <<>>, name |-> "none", eq |-> FALSE, hash_self |-> <<>>, hash_other |-> <<>>]

\* No call made on data yet.
NoDataCall == [name |-> "new", before |-> <<>>, arg |-> <<>>, returned |-> <<>>]

\* A chord call record: input_pressed fills world and pressed, raw_inputs fills
\* raw, contains fills input and found, deserialize fills document and outcome.
NoChordCall ==
    [input |-> Chord_new(<<>>), world |-> {},
     document |-> [map |-> FALSE, fields |-> <<>>],
     name |-> "new", raw |-> <<>>, pressed |-> FALSE, found |-> FALSE,
     outcome |-> "none"]

\* #[default] None
Init ==
    /\ op = "default"
    /\ built = NoCall
    /\ history = <<None>>
    /\ args = <<>>
    /\ next_ptr = FirstFree
    /\ input_value = Vec2_ZERO
    /\ output_value = Vec2_ZERO
    /\ twice = Vec2_ZERO
    /\ flags = <<FALSE, FALSE>>
    /\ bounds_call = NoBoundsCall
    /\ chord = Chord_new(<<>>)
    /\ chord_call = NoChordCall
    /\ axis = SingleAxis_mouse_motion_x
    /\ axis_calls = <<[name |-> "mouse_motion_x", arg |-> <<>>]>>
    /\ axis_cmp = NoCmp
    /\ stage = [v |-> <<Finite(-1), Finite(-1)>>, type |-> "DualAxisInverted"]
    /\ stage_cmp = NoCmp
    /\ data = DualAxisData_new(0, 0)
    /\ data_call = NoDataCall
    /\ obtained = <<None>>
    /\ obtained_by = <<>>
    /\ obtained_ptr = FirstFree

NoValues ==
    /\ input_value' = Vec2_ZERO
    /\ output_value' = Vec2_ZERO
    /\ twice' = Vec2_ZERO
    /\ flags' = <<FALSE, FALSE>>

\* A run constructs its receiver once, before any other call.
Construct(name, ctor, k, proc, arcs) ==
    /\ op = "default"
    /\ op' = name
    /\ built' = [ctor |-> ctor, k |-> k]
    /\ history' = <<proc>>
    /\ args' = <<>>
    /\ next_ptr' = FirstFree + arcs
    /\ NoValues
    /\ bounds_call' = NoBoundsCall
    /\ UNCHANGED notProcVars

\* DualAxisProcessor::pipeline(processors), which hands them to from_iter
CallPipeline ==
    \E processors \in Collections :
        Construct("pipeline", "from_iter", processors,
                  pipeline(processors, FirstFree), Len(processors))

\* DualAxisProcessor::from_iter(iter)
CallFromIter ==
    \E iter \in Collections :
        Construct("from_iter", "from_iter", iter,
                  from_iter(iter, FirstFree), Len(iter))

\* DualAxisProcessor::from(DualAxisInverted)
CallFromInverted ==
    \E preset \in {"ALL", "ONLY_X", "ONLY_Y"} :
        LET value == CASE preset = "ALL" -> DualAxisInverted_ALL
                       [] preset = "ONLY_X" -> DualAxisInverted_ONLY_X
                       [] preset = "ONLY_Y" -> DualAxisInverted_ONLY_Y
        IN  Construct("from", preset, <<>>, Inverted(value), 0)

\* DualAxisProcessor::from(DualAxisSensitivity)
CallFromSensitivity ==
    \E ctor \in {"new", "all", "only_x", "only_y"}, kx \in Factors, ky \in Factors :
        /\ ctor # "new" => ky = kx
        /\ LET value == CASE ctor = "new" -> DualAxisSensitivity_new(kx, ky)
                          [] ctor = "all" -> DualAxisSensitivity_all(kx)
                          [] ctor = "only_x" -> DualAxisSensitivity_only_x(kx)
                          [] ctor = "only_y" -> DualAxisSensitivity_only_y(kx)
           IN  Construct("from", ctor, <<kx, ky>>, Sensitivity(value), 0)

\* DualAxisProcessor::from(DualAxisBounds)
CallFromBounds ==
    Construct("from", "symmetric_all", <<2>>,
              ValueBounds(DualAxisBounds_symmetric_all(2)), 0)

\* acc.with_processor(next_processor)
CallWithProcessor ==
    \E next_processor \in NextProcessors :
        /\ Len(args) < MaxArgs
        /\ op' = "with_processor"
        /\ history' = Append(history, with_processor(acc, next_processor, next_ptr))
        /\ args' = Append(args, next_processor)
        /\ next_ptr' = next_ptr + ArcsCreated(acc, next_processor)
        /\ NoValues
        /\ bounds_call' = NoBoundsCall
        /\ UNCHANGED <<built, notProcVars>>

\* acc.process(input_value)
CallProcess ==
    \E value \in InputValues :
        /\ op' = "process"
        /\ input_value' = value
        /\ output_value' = process(acc, value)
        /\ twice' = Vec2_ZERO
        /\ flags' = <<FALSE, FALSE>>
        /\ UNCHANGED <<built, history, args, next_ptr, bounds_call, notProcVars>>

\* The methods of the DualAxisInverted held in acc: inverted(), invert(value)
\* and invert applied to its own result.
CallInvert ==
    \E value \in InputValues :
        /\ acc.kind = "Inverted"
        /\ op' = "invert"
        /\ input_value' = value
        /\ output_value' = invert(acc.p, value)
        /\ twice' = invert(acc.p, invert(acc.p, value))
        /\ flags' = inverted(acc.p)
        /\ UNCHANGED <<built, history, args, next_ptr, bounds_call, notProcVars>>

\* scale(value) of the DualAxisSensitivity held in acc.
CallScale ==
    \E value \in InputValues :
        /\ acc.kind = "Sensitivity"
        /\ op' = "scale"
        /\ input_value' = value
        /\ output_value' = scale(acc.p, value)
        /\ twice' = Vec2_ZERO
        /\ flags' = <<FALSE, FALSE>>
        /\ UNCHANGED <<built, history, args, next_ptr, bounds_call, notProcVars>>

Next ==
    \/ CallPipeline
    \/ CallFromIter
    \/ CallFromInverted
    \/ CallFromSensitivity
    \/ CallFromBounds
    \/ CallWithProcessor
    \/ CallProcess
    \/ CallInvert
    \/ CallScale

Spec == Init /\ [][Next]_vars

----------------------------------------------------------------------------
(* Calls of the symmetric bounds helpers                                    *)

\* The stage a processor applies last.
LastStage(proc) ==
    IF proc.kind = "Pipeline" /\ Len(proc.seq) > 0
    THEN proc.seq[Len(proc.seq)].val
    ELSE proc

\* What a helper call leaves: the processor returned, the stage it appended,
\* and the helper's name and threshold.
AfterHelper(name, threshold, returned) ==
    /\ Len(args) < MaxArgs
    /\ op' = name
    /\ history' = Append(history, returned)
    /\ args' = Append(args, LastStage(returned))
    /\ next_ptr' = next_ptr + ArcsCreated(acc, LastStage(returned))
    /\ bounds_call' = [threshold |-> threshold, helper |-> name]
    /\ NoValues
    /\ UNCHANGED <<built, notProcVars>>

\* acc.with_bounds_symmetric(threshold)
CallWithBoundsSymmetric ==
    \E threshold \in Thresholds :
        AfterHelper("with_bounds_symmetric", threshold,
                    with_bounds_symmetric(acc, threshold, next_ptr))

\* acc.with_bounds_x_symmetric(threshold)
CallWithBoundsXSymmetric ==
    \E threshold \in Thresholds :
        AfterHelper("with_bounds_x_symmetric", threshold,
                    with_bounds_x_symmetric(acc, threshold, next_ptr))

\* acc.with_bounds_y_symmetric(threshold)
CallWithBoundsYSymmetric ==
    \E threshold \in Thresholds :
        AfterHelper("with_bounds_y_symmetric", threshold,
                    with_bounds_y_symmetric(acc, threshold, next_ptr))

NextBounds ==
    \/ CallFromInverted
    \/ CallFromSensitivity
    \/ CallWithBoundsSymmetric
    \/ CallWithBoundsXSymmetric
    \/ CallWithBoundsYSymmetric
    \/ CallProcess

SpecBounds == Init /\ [][NextBounds]_vars

----------------------------------------------------------------------------
(* Chord calls                                                              *)

\* Chord::new(inputs)
CallChordNew ==
    \E inputs \in SeqsUpTo(Members, MaxMembers) :
        /\ chord' = Chord_new(inputs)
        /\ chord_call' = NoChordCall
        /\ UNCHANGED notChordVars

\* chord.input_pressed(world)
CallInputPressed ==
    \E world \in Worlds :
        /\ chord_call' = [NoChordCall EXCEPT !.name = "input_pressed",
                                              !.world = world,
                                              !.pressed = input_pressed(chord, world)]
        /\ UNCHANGED <<chord, notChordVars>>

\* chord.raw_inputs()
CallRawInputs ==
    /\ chord_call' = [NoChordCall EXCEPT !.name = "raw_inputs",
                                          !.raw = raw_inputs(chord)]
    /\ UNCHANGED <<chord, notChordVars>>

\* chord.contains(input)
CallContains ==
    \E input \in Queries :
        /\ chord_call' = [NoChordCall EXCEPT !.name = "contains",
                                              !.input = input,
                                              !.found = contains(chord, input)]
        /\ UNCHANGED <<chord, notChordVars>>

\* Chord::deserialize(document): no chord is returned unless the outcome is "ok".
CallChordDeserialize ==
    \E document \in Documents :
        /\ chord_call' = [NoChordCall EXCEPT !.name = "deserialize",
                                              !.document = document,
                                              !.outcome = Chord_deserialize(document)]
        /\ UNCHANGED <<chord, notChordVars>>

NextChord ==
    \/ CallChordNew
    \/ CallInputPressed
    \/ CallRawInputs
    \/ CallContains
    \/ CallChordDeserialize

SpecChord == Init /\ [][NextChord]_vars


TypeOK ==
    /\ Len(history) = Len(args) + 1
    /\ Len(args) <= MaxArgs
    /\ next_ptr >= FirstFree

----------------------------------------------------------------------------
(* SingleAxis calls                                                         *)

\* What a constructor call leaves: the axis returned, made by this one call.
NewAxis(name, arg, returned) ==
    /\ axis' = returned
    /\ axis_calls' = <<[name |-> name, arg |-> arg]>>
    /\ axis_cmp' = NoCmp
    /\ UNCHANGED notAxisVars

\* SingleAxis::symmetric(axis_type, threshold)
CallSymmetric ==
    \E axis_type \in AxisTypes, threshold \in Floats :
        NewAxis("symmetric", <<threshold>>, SingleAxis_symmetric(axis_type, threshold))

\* SingleAxis::from_value(axis_type, value)
CallFromValue ==
    \E axis_type \in AxisTypes, value \in Floats :
        NewAxis("from_value", <<value>>, SingleAxis_from_value(axis_type, value))

\* SingleAxis::mouse_motion_x()
CallMouseMotionX == NewAxis("mouse_motion_x", <<>>, SingleAxis_mouse_motion_x)

\* SingleAxis::mouse_motion_y()
CallMouseMotionY == NewAxis("mouse_motion_y", <<>>, SingleAxis_mouse_motion_y)

\* SingleAxis::negative_only(axis_type, threshold)
CallNegativeOnly ==
    \E axis_type \in AxisTypes, threshold \in Floats :
        NewAxis("negative_only", <<threshold>>,
                SingleAxis_negative_only(axis_type, threshold))

\* SingleAxis::positive_only(axis_type, threshold)
CallPositiveOnly ==
    \E axis_type \in AxisTypes, threshold \in Floats :
        NewAxis("positive_only", <<threshold>>,
                SingleAxis_positive_only(axis_type, threshold))

\* axis = axis.with_deadzone(deadzone)
CallWithDeadzone ==
    \E deadzone \in Floats :
        /\ Len(axis_calls) - 1 < MaxDeadzones
        /\ axis' = with_deadzone(axis, deadzone)
        /\ axis_calls' = Append(axis_calls, [name |-> "with_deadzone", arg |-> <<deadzone>>])
        /\ axis_cmp' = NoCmp
        /\ UNCHANGED notAxisVars

\* axis == other, and the hashes of both
CallAxisEq ==
    \E other \in OthersOf(axis) :
        /\ axis_cmp' = [other |-> other, name |-> "eq",
                        eq |-> SingleAxis_eq(axis, other),
                        hash_self |-> SingleAxis_hash(axis),
                        hash_other |-> SingleAxis_hash(other)]
        /\ UNCHANGED <<axis, axis_calls, notAxisVars>>

NextAxis ==
    \/ CallSymmetric
    \/ CallFromValue
    \/ CallMouseMotionX
    \/ CallMouseMotionY
    \/ CallNegativeOnly
    \/ CallPositiveOnly
    \/ CallWithDeadzone
    \/ CallAxisEq

SpecAxis == Init /\ [][NextAxis]_vars

----------------------------------------------------------------------------
(* Equality and hash of stages                                              *)

\* One of the DualAxisInverted presets, its Vec2 as bit patterns.
CallStageInverted ==
    \E preset \in {DualAxisInverted_ALL, DualAxisInverted_ONLY_X, DualAxisInverted_ONLY_Y} :
        /\ stage' = [v |-> <<Finite(preset[1]), Finite(preset[2])>>, type |-> "DualAxisInverted"]
        /\ stage_cmp' = NoCmp
        /\ UNCHANGED notStageVars

\* DualAxisSensitivity::new(sensitivity_x, sensitivity_y)
CallStageSensitivity ==
    \E sensitivity_x \in Floats, sensitivity_y \in Floats :
        /\ stage' = [v |-> DualAxisSensitivity_new(sensitivity_x, sensitivity_y),
                     type |-> "DualAxisSensitivity"]
        /\ stage_cmp' = NoCmp
        /\ UNCHANGED notStageVars

\* stage == other, and the hashes of both
CallStageEq ==
    \E other \in OtherStages(stage) :
        /\ stage_cmp' = [other |-> other, name |-> "eq",
                         eq |-> Stage_eq(stage.v, other.v),
                         hash_self |-> Stage_hash(stage.v),
                         hash_other |-> Stage_hash(other.v)]
        /\ UNCHANGED <<stage, notStageVars>>

NextStage ==
    \/ CallStageInverted
    \/ CallStageSensitivity
    \/ CallStageEq

SpecStage == Init /\ [][NextStage]_vars

----------------------------------------------------------------------------
(* DualAxisData calls                                                       *)

\* data = DualAxisData::new(x, y)
CallDataNew ==
    \E position \in Positions :
        /\ data' = DualAxisData_new(position[1], position[2])
        /\ data_call' = NoDataCall
        /\ UNCHANGED notDataVars

\* data.merged_with(other): &self, the sum is returned
CallMergedWith ==
    \E position \in Positions :
        LET other == DualAxisData_from_xy(position)
        IN  /\ data_call' = [name |-> "merged_with", before |-> <<data>>,
                             arg |-> <<other>>, returned |-> <<merged_with(data, other)>>]
            /\ UNCHANGED <<data, notDataVars>>

\* data.clamp_length(max): &mut self, nothing is returned
CallClampLength ==
    \E max \in MaxLengths :
        /\ data' = clamp_length(data, max)
        /\ data_call' = [name |-> "clamp_length", before |-> <<data>>,
                         arg |-> <<max>>, returned |-> <<>>]
        /\ UNCHANGED notDataVars

NextData ==
    \/ CallDataNew
    \/ CallMergedWith
    \/ CallClampLength

SpecData == Init /\ [][NextData]_vars

----------------------------------------------------------------------------
(* with_processor calls on the processors obtained from None                *)

\* self.with_processor(next_processor), both operands clones of values at hand.
Obtain(self, next_processor) ==
    /\ Len(obtained_by) < MaxCalls
    /\ obtained' = Append(obtained, with_processor(self, next_processor, obtained_ptr))
    /\ obtained_by' = Append(obtained_by, [self |-> self, other |-> next_processor])
    /\ obtained_ptr' = obtained_ptr + ArcsCreated(self, next_processor)
    /\ UNCHANGED notFlatVars

\* A processor obtained earlier takes None or a bare stage.
CallObtainedWithStage ==
    \E i \in 1..Len(obtained), next_processor \in Stages :
        Obtain(obtained[i], next_processor)

\* A processor obtained earlier takes a processor obtained earlier.
CallObtainedWithObtained ==
    \E i \in 1..Len(obtained), j \in 1..Len(obtained) :
        Obtain(obtained[i], obtained[j])

NextFlat ==
    \/ CallObtainedWithStage
    \/ CallObtainedWithObtained

SpecFlat == Init /\ [][NextFlat]_vars

----------------------------------------------------------------------------
(* Composition laws of with_processor                                       *)

\* A stage that is neither None nor a Pipeline.
IsPlain(proc) == proc.kind \notin {"None", "Pipeline"}

\* C1: identity law.  A with_processor call whose argument is None returns
\* a processor structurally equal to its receiver, and a call on the None
\* receiver returns one structurally equal to its argument, whatever the other
\* operand is (None, a single stage, a pipeline of any length).
C1_IdentityLaw ==
    \A k \in 1..Len(args) :
        /\ args[k].kind = "None" => DualAxisProcessor_eq(history[k + 1], history[k])
        /\ history[k].kind = "None" => DualAxisProcessor_eq(history[k + 1], args[k])

\* None.with_processor(P) returned a two-stage pipeline P, and
\* P.with_processor(None) returned it again.
C1_Witness ==
    /\ op = "with_processor"
    /\ Len(args) = 2
    /\ history[1].kind = "None"
    /\ args[1].kind = "Pipeline"
    /\ Len(args[1].seq) = 2
    /\ args[2].kind = "None"
    /\ history[3].kind = "Pipeline"

\* C2: associativity.  For consecutive calls a.with_processor(b) and then
\* .with_processor(c), the result is structurally equal to
\* a.with_processor(b.with_processor(c)).
C2_Associative ==
    \A k \in 1..(Len(args) - 1) :
        DualAxisProcessor_eq(
            history[k + 2],
            with_processor(history[k],
                           with_processor(args[k], args[k + 1], next_ptr),
                           next_ptr + 2))

\* A single stage, then a two-stage pipeline, then a single stage: the result
\* is the flat four-stage pipeline.
C2_Witness ==
    /\ Len(args) = 2
    /\ IsPlain(history[1])
    /\ args[1].kind = "Pipeline"
    /\ Len(args[1].seq) = 2
    /\ IsPlain(args[2])
    /\ Len(acc.seq) = 4

\* C3: flattening law for plain stages.  When the receiver and every argument
\* of the chain are plain stages (n >= 2 stages in all), the result is
\* structurally equal to Pipeline(vec![Arc::new(s1), ..., Arc::new(sn)]): the
\* stages in call order, none of them nested.
C3_FlatteningLaw ==
    (/\ Len(args) >= 1
     /\ IsPlain(history[1])
     /\ \A k \in 1..Len(args) : IsPlain(args[k]))
    => LET stages == <<history[1]>> \o args
       IN  /\ DualAxisProcessor_eq(
                  acc, Pipeline([i \in 1..Len(stages) |-> Arc_new(i, stages[i])]))
           /\ Len(acc.seq) = Len(stages)
           /\ \A i \in 1..Len(stages) : acc.seq[i].val = stages[i]

\* Three plain stages A, B, C chained left to right, A and B of different kinds.
C3_Witness ==
    /\ op = "with_processor"
    /\ Len(args) = 2
    /\ IsPlain(history[1])
    /\ IsPlain(args[1])
    /\ IsPlain(args[2])
    /\ history[1].kind # args[1].kind
    /\ args[1] # args[2]
    /\ Len(acc.seq) = 3

----------------------------------------------------------------------------
(* pipeline / from_iter                                                     *)

\* None.with_processor(s1).with_processor(s2)... over the stages, in order.
RECURSIVE Chained(_, _, _)
Chained(start, stages, fresh) ==
    IF stages = <<>>
    THEN start
    ELSE Chained(with_processor(start, Head(stages), fresh), Tail(stages), fresh + 2)

FromCollection == built.ctor = "from_iter"

\* C4 as stated: for any collection, pipeline / from_iter returns a
\* processor structurally equal to the with_processor chain started from None.
C4_AnyCollection ==
    FromCollection
    => DualAxisProcessor_eq(history[1], Chained(None, built.k, FirstFree))

\* C4: for a collection of at least two stages, none of them None or a
\* Pipeline, pipeline / from_iter returns a processor structurally equal to the
\* with_processor chain started from None.
C4_PlainCollection ==
    (/\ FromCollection
     /\ Len(built.k) >= 2
     /\ \A i \in 1..Len(built.k) : IsPlain(built.k[i]))
    => DualAxisProcessor_eq(history[1], Chained(None, built.k, FirstFree))

\* from_iter was handed two different plain stages.
C4_Witness ==
    /\ op = "from_iter"
    /\ Len(built.k) = 2
    /\ IsPlain(built.k[1])
    /\ IsPlain(built.k[2])
    /\ built.k[1] # built.k[2]
    /\ Len(history[1].seq) = 2

\* C5: pipeline and from_iter return the Pipeline variant holding exactly
\* the given processors, one handle per item, in the given order, for every
\* length: Pipeline([]) for the empty collection, a one-stage Pipeline for a
\* one-item collection.
C5_PipelineOfItems ==
    FromCollection
    => /\ history[1].kind = "Pipeline"
       /\ Len(history[1].seq) = Len(built.k)
       /\ \A i \in 1..Len(built.k) : history[1].seq[i].val = built.k[i]
       /\ \A i, j \in 1..Len(built.k) :
              i # j => history[1].seq[i].ptr # history[1].seq[j].ptr
       /\ built.k = <<>> => history[1] = Pipeline(<<>>)

\* pipeline was handed one plain stage and returned a one-stage Pipeline.
C5_Witness ==
    /\ op = "pipeline"
    /\ Len(built.k) = 1
    /\ IsPlain(built.k[1])
    /\ history[1].kind = "Pipeline"
    /\ Len(history[1].seq) = 1

----------------------------------------------------------------------------
(* process                                                                  *)

\* C6: with_processor appends a processing step.  With a the receiver and
\* b the argument of the last with_processor call, processing a value with the
\* returned processor gives b.process(a.process(value)).
C6_AppendsStep ==
    (op = "process" /\ Len(args) >= 1)
    => output_value =
           process(args[Len(args)], process(history[Len(args)], input_value))

\* a is a pipeline, b a plain stage, and the order of the two matters for
\* the value processed.
C6_Witness ==
    /\ op = "process"
    /\ Len(args) >= 1
    /\ history[Len(args)].kind = "Pipeline"
    /\ Len(history[Len(args)].seq) >= 1
    /\ IsPlain(args[Len(args)])
    /\ output_value # input_value
    /\ output_value #
           process(history[Len(args)], process(args[Len(args)], input_value))

\* The value after the first n stages of a pipeline: the n-th stage applied to
\* the value after the first n - 1 stages, the input itself for n = 0.
RECURSIVE AfterStages(_, _, _)
AfterStages(sequence, n, value) ==
    IF n = 0
    THEN value
    ELSE process(sequence[n].val, AfterStages(sequence, n - 1, value))

\* Pipeline(vec![Arc::new(Inverted::ALL.into()), Arc::new(Sensitivity::all(2.0).into())])
InvertedThenDoubled ==
    Pipeline(<<Arc_new(0, Inverted(DualAxisInverted_ALL)),
               Arc_new(1, Sensitivity(DualAxisSensitivity_all(2)))>>)

\* C7: process on a Pipeline applies the stages left to right, each stage
\* receiving the output of the one before it (the input itself when there is
\* no stage); process on None returns the input; and the pipeline
\* [Inverted::ALL, Sensitivity::all(2.0)] maps every v to -2 * v.
C7_LeftToRight ==
    op = "process"
    => /\ acc.kind = "None" => output_value = input_value
       /\ acc.kind = "Pipeline"
          => output_value = AfterStages(acc.seq, Len(acc.seq), input_value)
       /\ acc = Pipeline(<<>>) => output_value = input_value
       /\ DualAxisProcessor_eq(acc, InvertedThenDoubled)
          => output_value = <<-2 * input_value[1], -2 * input_value[2]>>

\* (1.5, 2.0) went through [Inverted::ALL, Sensitivity::all(2.0)] and came out
\* as (-3.0, -4.0).
C7_Witness ==
    /\ op = "process"
    /\ DualAxisProcessor_eq(acc, InvertedThenDoubled)
    /\ input_value = <<3, 4>>
    /\ output_value = <<-6, -8>>

----------------------------------------------------------------------------
(* DualAxisInverted, DualAxisSensitivity                                    *)

\* The receiver is the stage as constructed.
AsBuilt == Len(args) = 0

\* C8: inversion presets.  ALL.invert(x, y) = (-x, -y), ONLY_X gives
\* (-x, y), ONLY_Y gives (x, -y); inverting twice returns the value; and
\* DualAxisProcessor::Inverted(p).process(v) = p.invert(v).
C8_InversionPresets ==
    LET x == input_value[1]
        y == input_value[2]
    IN  /\ (op = "invert" /\ AsBuilt)
           => /\ built.ctor = "ALL" => output_value = <<-x, -y>>
              /\ built.ctor = "ONLY_X" => output_value = <<-x, y>>
              /\ built.ctor = "ONLY_Y" => output_value = <<x, -y>>
              /\ twice = input_value
        /\ (op = "process" /\ AsBuilt /\ built.ctor \in {"ALL", "ONLY_X", "ONLY_Y"})
           => output_value = invert(acc.p, input_value)

\* ONLY_Y inverted (1.5, 2.0) to (1.5, -2.0).
C8_Witness ==
    /\ op = "invert"
    /\ AsBuilt
    /\ built.ctor = "ONLY_Y"
    /\ input_value = <<3, 4>>
    /\ output_value = <<3, -4>>
    /\ twice = <<3, 4>>

\* C9: inverted() returns (true, true) for ALL, (true, false) for ONLY_X
\* and (false, true) for ONLY_Y: the flag of an axis is true exactly when
\* invert negates that component.
C9_InvertedFlags ==
    (op = "invert" /\ AsBuilt)
    => /\ built.ctor = "ALL" => flags = <<TRUE, TRUE>>
       /\ built.ctor = "ONLY_X" => flags = <<TRUE, FALSE>>
       /\ built.ctor = "ONLY_Y" => flags = <<FALSE, TRUE>>
       /\ \A i \in 1..2 :
              input_value[i] # 0
              => (flags[i] <=> output_value[i] = -input_value[i])

\* ONLY_X reported (true, false) and negated only x of a value with no zero
\* component.
C9_Witness ==
    /\ op = "invert"
    /\ AsBuilt
    /\ built.ctor = "ONLY_X"
    /\ flags = <<TRUE, FALSE>>
    /\ input_value[1] # 0
    /\ input_value[2] # 0
    /\ output_value = <<-input_value[1], input_value[2]>>

\* C10: sensitivity is componentwise multiplication.  new(kx, ky).scale(x, y)
\* = (kx * x, ky * y); all(k) scales both axes by k; only_x(k) scales x and
\* returns y unchanged; only_y(k) scales y and returns x unchanged; and
\* DualAxisProcessor::Sensitivity(s).process(v) = s.scale(v).
C10_Sensitivity ==
    LET x == input_value[1]
        y == input_value[2]
        kx == built.k[1]
        ky == built.k[2]
        ctors == {"new", "all", "only_x", "only_y"}
    IN  /\ (op = "scale" /\ AsBuilt)
           => /\ built.ctor = "new" => output_value = <<kx * x, ky * y>>
              /\ built.ctor = "all" => output_value = <<kx * x, kx * y>>
              /\ built.ctor = "only_x" => output_value = <<kx * x, y>>
              /\ built.ctor = "only_y" => output_value = <<x, kx * y>>
        /\ (op = "process" /\ AsBuilt /\ built.ctor \in ctors)
           => output_value = scale(acc.p, input_value)

\* only_x(-2.0) scaled (1.5, 2.0) to (-3.0, 2.0).
C10_Witness ==
    /\ op = "scale"
    /\ AsBuilt
    /\ built.ctor = "only_x"
    /\ built.k[1] = -2
    /\ input_value = <<3, 4>>
    /\ output_value = <<-6, 4>>


----------------------------------------------------------------------------
(* Chords                                                                   *)

\* What one member contributes to its chord: the input_pressed of its button
\* view (a held button for a leaf, the member's own answer for a chord), FALSE
\* without a button view.
MemberPressed(member, world) ==
    CASE member.kind = "Chord" -> input_pressed(member, world)
      [] member.kind = "Button" -> member.id \in world
      [] OTHER -> FALSE

\* C11: input_pressed of a chord is the logical AND over its immediate members,
\* a member with a button view contributing that view's input_pressed and a
\* member without one contributing false; so a chord of one held button and one
\* axis-only member is not pressed.
C11_ChordStrictness ==
    chord_call.name = "input_pressed" =>
        /\ chord_call.pressed =
               (\A i \in 1..Len(chord.inputs) :
                    MemberPressed(chord.inputs[i], chord_call.world))
        /\ (\E i \in 1..Len(chord.inputs) : chord.inputs[i].kind \in {"SingleAxis", "DualAxis"})
               => ~chord_call.pressed

C11_Witness ==
    /\ chord_call.name = "input_pressed"
    /\ chord = Chord_new(<<ButtonA, AxisX>>)
    /\ chord_call.world = {ButtonA.id, ButtonB.id}
    /\ ~chord_call.pressed

\* The leaves of an input object in depth-first member order, by index.
RECURSIVE LeavesOf(_)
LeavesFrom(input, i) ==
    IF i > Len(input.inputs) THEN <<>>
    ELSE LeavesOf(input.inputs[i]) \o LeavesOf(Chord_new(SubSeq(input.inputs, i + 1, Len(input.inputs))))
LeavesOf(input) ==
    IF input.kind = "Chord" THEN LeavesFrom(input, 1) ELSE <<input>>

\* C12: raw_inputs of a chord is the concatenation, in member order, of the
\* raw_inputs of its members: it holds only leaves, never a Chord, it is what the
\* chord of those leaves returns, and Chord[Chord[A, B], C] returns what
\* Chord[A, B, C] returns.
C12_FlattenCorrectness ==
    chord_call.name = "raw_inputs" =>
        /\ chord_call.raw = LeavesOf(chord)
        /\ \A i \in 1..Len(chord_call.raw) : chord_call.raw[i].kind # "Chord"
        /\ chord_call.raw = raw_inputs(Chord_new(LeavesOf(chord)))
        /\ chord = Chord_new(<<Chord_new(<<ButtonA, ButtonB>>), AxisX>>)
               => chord_call.raw = raw_inputs(Chord_new(<<ButtonA, ButtonB, AxisX>>))

C12_Witness ==
    /\ chord_call.name = "raw_inputs"
    /\ chord = Chord_new(<<Chord_new(<<ButtonA, ButtonB>>), AxisX>>)
    /\ chord_call.raw = <<ButtonA, ButtonB, AxisX>>

\* The set of the leaves of an input object, to any depth.
RECURSIVE LeafSet(_)
LeafSet(input) ==
    IF input.kind = "Chord"
    THEN UNION {LeafSet(input.inputs[i]) : i \in 1..Len(input.inputs)}
    ELSE {input}

\* C13: contains(x) is true exactly when some leaf of the chord, at any depth,
\* is equal to x; comparing x with the immediate members does not decide it.
C13_ContainsFlattened ==
    chord_call.name = "contains" =>
        /\ chord_call.found =
               (\E leaf \in LeafSet(chord) : InputLikeObject_eq(leaf, chord_call.input))
        /\ chord_call.input.kind = "Chord" => ~chord_call.found

C13_Witness ==
    /\ chord_call.name = "contains"
    /\ chord = Chord_new(<<Chord_new(<<Chord_new(<<ButtonB>>)>>)>>)
    /\ chord_call.input = ButtonB
    /\ chord_call.found

\* C14: deserializing a Chord ends in a decoded value or in a decoding error
\* returned to the caller, never in a panic, whatever tags are stored.
C14_DecodeNeverPanics ==
    chord_call.name = "deserialize" => chord_call.outcome \in {"ok", "err"}

\* C20: a chord is pressed exactly when every leaf of raw_inputs() has a button
\* view and that view is pressed; a chord without leaves is pressed.
C20_AllLeavesPressed ==
    chord_call.name = "input_pressed" =>
        LET raw == raw_inputs(chord)
        IN  /\ chord_call.pressed =
                   (\A i \in 1..Len(raw) :
                        /\ Leaf_as_button(raw[i]) # <<>>
                        /\ Leaf_input_pressed(raw[i], chord_call.world))
            /\ raw = <<>> => chord_call.pressed

C20_Witness ==
    /\ chord_call.name = "input_pressed"
    /\ chord = Chord_new(<<Chord_new(<<>>), Chord_new(<<Chord_new(<<ButtonB>>)>>)>>)
    /\ chord_call.world = {ButtonB.id}
    /\ chord_call.pressed

----------------------------------------------------------------------------
(* Symmetric bounds helpers                                                 *)

\* The value handed to the stage appended last: what the processor held before
\* the helper call returns for the input.
BeforeLastStage == process(history[Len(history) - 1], input_value)

\* C18: with_bounds_x_symmetric(t) appends the symmetric X-only bounds stage,
\* which restricts X to [-t, t] and leaves Y as it is, with_bounds_y_symmetric(t)
\* the symmetric Y-only one, which restricts Y and leaves X as it is; neither is
\* the stage with_bounds_symmetric(t) appends.
C18_AxisSpecificBounds ==
    LET t == bounds_call.threshold
        appended == args[Len(args)]
    IN  /\ op = "with_bounds_x_symmetric" =>
               /\ appended = ValueBounds(DualAxisBounds_symmetric_only_x(t))
               /\ appended # ValueBounds(DualAxisBounds_symmetric_all(t))
        /\ op = "with_bounds_y_symmetric" =>
               /\ appended = ValueBounds(DualAxisBounds_symmetric_only_y(t))
               /\ appended # ValueBounds(DualAxisBounds_symmetric_all(t))
        /\ op = "process" /\ bounds_call.helper = "with_bounds_x_symmetric" =>
               output_value = <<f32_clamp(BeforeLastStage[1], -t, t), BeforeLastStage[2]>>
        /\ op = "process" /\ bounds_call.helper = "with_bounds_y_symmetric" =>
               output_value = <<BeforeLastStage[1], f32_clamp(BeforeLastStage[2], -t, t)>>

----------------------------------------------------------------------------
(* SingleAxis                                                               *)

\* Two SingleAxis values agree on axis_type, positive_low and negative_low,
\* bit for bit.
SameTriggerZone(a, b) ==
    /\ a.axis_type = b.axis_type
    /\ a.positive_low = b.positive_low
    /\ a.negative_low = b.negative_low

\* C15: two SingleAxis values that agree on axis_type, positive_low and
\* negative_low are equal and hash identically whatever their `value` fields
\* are, and two equal SingleAxis values always hash identically.
C15_ValueIgnored ==
    axis_cmp.name = "eq" =>
        /\ SameTriggerZone(axis, axis_cmp.other) =>
               axis_cmp.eq /\ axis_cmp.hash_self = axis_cmp.hash_other
        /\ axis_cmp.eq => axis_cmp.hash_self = axis_cmp.hash_other

\* An axis made by from_value (value Some) found equal to its copy without a
\* value, with the same hash.
C15_Witness ==
    /\ axis_cmp.name = "eq"
    /\ axis.value # <<>>
    /\ axis_cmp.other.value = <<>>
    /\ SameTriggerZone(axis, axis_cmp.other)
    /\ axis_cmp.eq
    /\ axis_cmp.hash_self = axis_cmp.hash_other

\* C19 as stated: whatever the arguments, the axis held satisfies
\* positive_low >= negative_low.
C19_AnyArgument == f32_ge(axis.positive_low, axis.negative_low)

\* The arguments of the calls that made the axis are in range: thresholds of
\* symmetric and deadzones >= 0.0, the threshold of negative_only <= f32::MAX,
\* the threshold of positive_only >= f32::MIN.  A NaN is in no range.
ArgsInRange ==
    \A k \in 1..Len(axis_calls) :
        LET call == axis_calls[k]
        IN  /\ call.name \in {"symmetric", "with_deadzone"} => f32_ge(call.arg[1], Finite(0))
            /\ call.name = "negative_only" => f32_ge(Finite(f32_MAX), call.arg[1])
            /\ call.name = "positive_only" => f32_ge(call.arg[1], Finite(f32_MIN))

\* C19: an axis made by one of the six constructors and any number of
\* with_deadzone calls satisfies positive_low >= negative_low, provided the
\* arguments were in range.
C19_TriggerZone == ArgsInRange => f32_ge(axis.positive_low, axis.negative_low)

\* negative_only(1.0) followed by with_deadzone(1.0).
C19_Witness ==
    /\ Len(axis_calls) = 2
    /\ axis_calls[1] = [name |-> "negative_only", arg |-> <<Finite(1)>>]
    /\ axis_calls[2] = [name |-> "with_deadzone", arg |-> <<Finite(1)>>]
    /\ ArgsInRange
    /\ axis.negative_low = Finite(-1)

----------------------------------------------------------------------------
(* Stage equality, immutability                                             *)

\* C16: two DualAxisInverted or DualAxisSensitivity stages built from
\* bit-identical float parameters compare equal and hash identically, NaN and
\* the infinities included (so a stage holding NaN equals itself), and equal
\* stages always hash identically.
C16_StageEqHash ==
    stage_cmp.name = "eq" =>
        /\ stage.v = stage_cmp.other.v =>
               stage_cmp.eq /\ stage_cmp.hash_self = stage_cmp.hash_other
        /\ stage_cmp.eq => stage_cmp.hash_self = stage_cmp.hash_other

\* C17: merged_with and clamp_length of DualAxisData leave the value they were
\* called on as it was before the call; the changed value is a new one.
C17_Immutable ==
    data_call.name \in {"merged_with", "clamp_length"} =>
        /\ data_call.before = <<data>>
        /\ data_call.name = "merged_with" => Len(data_call.returned) = 1

----------------------------------------------------------------------------
(* Handles                                                                  *)

\* The handles a processor holds itself: the Vec of a Pipeline, none otherwise.
Handles(proc) == IF proc.kind = "Pipeline" THEN proc.seq ELSE <<>>

\* Every address in use before the k-th with_processor call: those of the
\* operands at hand and of everything the chain held or was given earlier.
PtrsBefore(k) ==
    UNION ({Ptrs(proc) : proc \in NextProcessors \cup Items}
           \cup {Ptrs(history[j]) : j \in 1..k}
           \cup {Ptrs(args[j]) : j \in 1..k})

\* The k-th call, self.with_processor(other) = returned, shared its handles:
\* with a None operand the other operand comes back as it is; otherwise the
\* handles of the result are those of self (one new handle if self is a bare
\* stage) followed by those of other (likewise), handle for handle, the address
\* included, and a new handle holds the bare operand at an address not in use.
SharesHandles(k) ==
    LET self == history[k]
        other == args[k]
        returned == history[k + 1]
        left == IF self.kind = "Pipeline" THEN Len(self.seq) ELSE 1
        right == IF other.kind = "Pipeline" THEN Len(other.seq) ELSE 1
        seq == Handles(returned)
    IN  IF other.kind = "None" THEN returned = self
        ELSE IF self.kind = "None" THEN returned = other
        ELSE /\ returned.kind = "Pipeline"
             /\ Len(seq) = left + right
             /\ IF self.kind = "Pipeline"
                THEN SubSeq(seq, 1, left) = self.seq
                ELSE /\ seq[1].val = self
                     /\ seq[1].ptr \notin PtrsBefore(k)
             /\ IF other.kind = "Pipeline"
                THEN SubSeq(seq, left + 1, left + right) = other.seq
                ELSE /\ seq[left + 1].val = other
                     /\ seq[left + 1].ptr \notin PtrsBefore(k)
             /\ self.kind # "Pipeline" /\ other.kind # "Pipeline"
                    => seq[1].ptr # seq[2].ptr

\* C21: composition shares stage handles.  Every handle of a Pipeline operand
\* of with_processor is in the result as the same handle, at the same address
\* and in the same order; no payload held in a pipeline is put into a new
\* handle; a new handle is made only for an operand that is a bare stage.
C21_HandlesShared == \A k \in 1..Len(args) : SharesHandles(k)

\* A pipeline receiver took a bare stage (one new handle), and the result took
\* a two-stage pipeline, whose two handles it now shares.
C21_Witness ==
    /\ op = "with_processor"
    /\ Len(args) = 2
    /\ history[1].kind = "Pipeline"
    /\ Len(history[1].seq) = 2
    /\ IsPlain(args[1])
    /\ args[2].kind = "Pipeline"
    /\ Len(args[2].seq) = 2
    /\ SubSeq(history[3].seq, 4, 5) = args[2].seq
    /\ history[3].seq[3].ptr \notin Ptrs(history[1]) \cup Ptrs(args[2])

----------------------------------------------------------------------------
(* Flat pipelines                                                           *)

\* None, a bare stage, or a Pipeline of at least two stages none of which is
\* None or a Pipeline.
IsFlat(proc) ==
    \/ proc.kind = "None"
    \/ IsPlain(proc)
    \/ /\ proc.kind = "Pipeline"
       /\ Len(proc.seq) >= 2
       /\ \A i \in 1..Len(proc.seq) : IsPlain(proc.seq[i].val)

\* C22: flat-pipeline invariant.  Every processor obtained from None by
\* with_processor calls whose arguments are None, bare stages or processors
\* obtained earlier is None, a bare stage, or a Pipeline of at least two stages
\* none of which is None or a Pipeline.
C22_FlatPipeline == \A k \in 1..Len(obtained) : IsFlat(obtained[k])

\* A bare stage took a pipeline obtained earlier and a pipeline took a
\* pipeline: three calls, the last two returning pipelines of three or more
\* stages.
C22_Witness ==
    /\ Len(obtained_by) = 3
    /\ obtained_by[1].self.kind = "None"
    /\ IsPlain(obtained_by[2].self) /\ IsPlain(obtained_by[2].other)
    /\ obtained_by[3].self.kind = "Pipeline"
    /\ obtained_by[3].other.kind = "Pipeline"
    /\ Len(obtained[4].seq) = 4

====
